---- MODULE Spec2Model ----
(***************************************************************************)
(* State-machine model of the chat-with-pdf backend: the upload-event      *)
(* webhook, the ingestion pipeline, the administrative status reset and    *)
(* the chat orchestrator (ChatHandler.process_chat) with its completion    *)
(* client.                                                                 *)
(***************************************************************************)
EXTENDS Integers, Sequences, FiniteSets, TLC

\* ------------------------------------------------------------------ bounds
MaxDocs == 2
MaxEvents == 2
MaxActive == 1
MaxConvs == 2
MaxBatches == 2
MaxToolCalls == 1
MaxText == 9
MaxListed == 3
MaxHistory == 2

Docs == 1..MaxDocs
RunIds == 1..MaxEvents
ConvIds == 1..MaxConvs

\* -------------------------------------------------------- program constants
BATCH_SIZE == 20

\* chunk counts an ingestion run may obtain from chunk_text: one chunk, and
\* one chunk more than b full batches
ChunkCounts == {1} \cup {b * BATCH_SIZE + 1 : b \in 1..(MaxBatches - 1)}

UPLOADED == "uploaded"
COMPLETED == "completed"
FAILED == "failed"
IngestionStatus == {UPLOADED, COMPLETED, FAILED}
ABSENT == "absent"

INLINE == "inline"
RAG == "rag"
NONE == "none"

VARIABLES
  files,      \* files table: document id -> ingestion_status, or ABSENT
  index,      \* vector index: set of vector ids <<document id, chunk index>>
  runs,       \* upload events: the webhook call, then its background task
  convs,      \* number of conversation rows (ids 1..convs)
  msgs,       \* messages table: conversation id -> messages by created_at
  turn,       \* the chat request in flight, or the last one answered
  issued,     \* document ids handed out with a presigned upload URL
  completedN, \* history: chunk count of the run that last wrote `completed` (0: none)
  everDone,   \* history: documents some run moved uploaded -> completed
  cleanDone,  \* history: the same, with no reset since
  llm,        \* a chat_completion call followed candidate by candidate
  ups,        \* an upsert_vectors call followed batch by batch
  chk,        \* a chunk_text call followed window by window
  lst,        \* a client paging through GET /chats
  hst         \* a build_message_history call followed message by message

\* the service's tables, index and tasks
tables == <<files, index, runs, convs, msgs, turn, issued,
            completedN, everDone, cleanDone>>

\* the calls followed on their own
units == <<llm, ups, chk, lst, hst>>

vars == <<files, index, runs, convs, msgs, turn, issued,
          completedN, everDone, cleanDone, llm, ups, chk, lst, hst>>

\* ------------------------------------------------------------- persistence
\* BaseDAO.update on an instance the session already holds: the UPDATE is
\* emitted only for attributes whose value differs from the loaded one.
WriteStatus(tbl, d, loaded, new) ==
  IF loaded = new THEN tbl ELSE [tbl EXCEPT ![d] = new]

\* --------------------------------------------------------------- scheduling
\* Stretches of a task that touch nothing another task can see (no table, no
\* index) run to their next visible step before any other task moves.
RunLocalPcs == {"respond", "extract", "sanitize", "chunk", "embed", "caught",
                "returning", "raising"}
TurnLocalPcs == {"build", "inline", "rebuild", "retry", "tools", "toolcall",
                 "second", "fallback", "store", "return", "raise"}

RunsQuiet(except) == \A q \in RunIds : q \in except \/ runs[q].pc \notin RunLocalPcs
TurnQuiet == turn.pc \notin TurnLocalPcs
Quiet == RunsQuiet({}) /\ TurnQuiet

\* ------------------------------------------------------- request budget
\* user messages stored so far, one per request that passed validation
RECURSIVE CountUser(_)
CountUser(C) ==
  IF C = {} THEN 0
  ELSE LET c == CHOOSE x \in C : TRUE IN
       Cardinality({i \in DOMAIN msgs[c] : msgs[c][i].role = "user"}) + CountUser(C \ {c})

UserMessages == CountUser(ConvIds)

\* upload events, chat requests and upload-URL requests received so far
Events ==
  Cardinality({r \in RunIds : runs[r].pc # "idle"}) + UserMessages + Cardinality(issued)
    + (IF turn.pc = "open" THEN 1 ELSE 0)

\* ------------------------------------------------------ ingestion pipeline
StepOrder == <<"fetch", "extract", "sanitize", "chunk", "embed", "upsert", "mark">>

\* storage keys of upload events; id 0 stands for text that is no lowercase UUID
S3Key(dir, id, ext) == [dir |-> dir, id |-> id, ext |-> ext]
UploadKey(d) == S3Key("uploads", d, "pdf")
BadKeys == {S3Key("other", 1, "pdf"), S3Key("uploads", 1, "txt"), S3Key("uploads", 0, "pdf")}
Keys == {UploadKey(d) : d \in Docs} \cup BadKeys
NoKey == S3Key(NONE, 0, NONE)

IdleRun == [doc |-> 0, pc |-> "idle", loaded |-> NONE, n |-> 0, sent |-> 0,
            trace |-> <<>>, failedAt |-> NONE, wrote |-> NONE,
            key |-> NoKey, seen |-> NONE, http |-> 0, answer |-> NONE]

VectorId(d, i) == <<d, i>>

\* ids numbered after the entries the index already holds for the document
batch_ids_appended(d, sent, n) ==
  LET held == Cardinality({x \in index : x[1] = d}) IN
  {VectorId(d, held + i) :
     i \in sent..(IF sent + BATCH_SIZE < n THEN sent + BATCH_SIZE ELSE n) - 1}

\* a loop that posts everything up to the end of the current batch
batch_from_start(d, sent, n) ==
  {VectorId(d, i) : i \in 0..(IF sent + BATCH_SIZE < n THEN sent + BATCH_SIZE ELSE n) - 1}

\* ids of one upsert batch: data[sent : sent + BATCH_SIZE]
BatchIds(d, sent, n) ==
  {VectorId(d, i) : i \in sent..(IF sent + BATCH_SIZE < n THEN sent + BATCH_SIZE ELSE n) - 1}

\* a step that returned: the run goes on to the next one
StepOk(run, step, next) ==
  [run EXCEPT !.pc = next, !.trace = Append(run.trace, step)]

\* a step that raised: control leaves the try-block for the except-branch
StepRaised(run, step) ==
  [run EXCEPT !.pc = "caught", !.failedAt = step, !.trace = Append(run.trace, step)]

StepResult(run, step, next, ok) ==
  IF ok THEN StepOk(run, step, next) ELSE StepRaised(run, step)

\* the call is about to return or to raise; wrote is its last status write
Leaving(run, pc, wrote) == [run EXCEPT !.pc = pc, !.wrote = wrote]

\* a pattern that accepts any key holding a UUID
extract_any_uuid(k) == k.id

\* IngestionService.extract_file_id_from_s3_key: the UUID of a key that matches
\* ^uploads/{uuid}\.pdf$, else None (0)
extract_file_id_from_s3_key(k) ==
  IF k.dir = "uploads" /\ k.id # 0 /\ k.ext = "pdf" THEN k.id ELSE 0

\* the webhook answers: WebhookIngestResponse, or an HTTP error
Answer(run, http, status) == [run EXCEPT !.pc = "respond", !.http = http, !.answer = status]

\* ingest_file up to the first database read: the key is parsed and, when it
\* matches, get_by_s3_key looks the row up.
\* Document ids are opaque: they are numbered in the order of their first use.
IngestFile(k) ==
  /\ Quiet
  /\ Events < MaxEvents
  /\ LET d == extract_file_id_from_s3_key(k) IN
     /\ d # 0 => \A e \in Docs : e < d => (files[e] # ABSENT \/ e \in issued)
     /\ \E r \in RunIds :
          /\ runs[r].pc = "idle"
          /\ \A q \in RunIds : q < r => runs[q].pc # "idle"
          /\ runs' = [runs EXCEPT ![r] =
                        IF d = 0 THEN Answer([IdleRun EXCEPT !.key = k], 400, NONE)
                        ELSE [IdleRun EXCEPT !.key = k, !.doc = d, !.pc = "hook",
                                             !.seen = files[d]]]
  /\ UNCHANGED <<units, issued, files, index, convs, msgs, turn, completedN, everDone, cleanDone>>

\* the rest of create_file_from_s3_event and of ingest_file: the row found is
\* returned as it was read, else a row is inserted (the insert of an id that
\* exists by now raises IntegrityError); commit, add_task, response
HookCommit(r) ==
  /\ runs[r].pc = "hook"
  /\ Quiet
  /\ LET run == runs[r]
         d == run.doc
     IN  IF run.seen # ABSENT
         THEN /\ runs' = [runs EXCEPT ![r] = Answer(run, 200, run.seen)]
              /\ files' = files
         ELSE IF files[d] = ABSENT
         THEN /\ runs' = [runs EXCEPT ![r] = Answer(run, 200, UPLOADED)]
              /\ files' = [files EXCEPT ![d] = UPLOADED]
         ELSE /\ runs' = [runs EXCEPT ![r] = Answer(run, 500, NONE)]
              /\ files' = files
  /\ UNCHANGED <<units, issued, index, convs, msgs, turn, completedN, everDone, cleanDone>>

\* what becomes of an exception that process_file_ingestion raised and the
\* background task did not catch: it would surface in the task's caller
propagate_to_caller(run) == "crashed"

\* _process_ingestion_background: `except Exception` logs, `finally` closes
BackgroundOutcome(run) == "ended"

\* the response is sent; the background task, when one was added, is now
\* waiting to start
HookRespond(r) ==
  /\ runs[r].pc = "respond"
  /\ RunsQuiet({r}) /\ TurnQuiet
  /\ runs' = [runs EXCEPT ![r] =
                IF runs[r].http = 200
                THEN [IdleRun EXCEPT !.doc = runs[r].doc, !.pc = "fetch"]
                ELSE [IdleRun EXCEPT !.pc = "ended"]]
  /\ UNCHANGED <<units, issued, files, index, convs, msgs, turn, completedN, everDone, cleanDone>>

\* an upload service that registers the document when it hands out the URL
presign_creates_row(tbl, d) == [tbl EXCEPT ![d] = UPLOADED]

\* generate_presigned_upload touches no table
PresignTable(tbl, d) == tbl

\* POST /files/presign: uuid4 (an id not seen before) and a presigned PUT URL
GeneratePresignedUrl(d) ==
  /\ Quiet
  /\ Events < MaxEvents
  /\ files[d] = ABSENT /\ d \notin issued
  /\ \A e \in Docs : e < d => (files[e] # ABSENT \/ e \in issued)
  /\ issued' = issued \cup {d}
  /\ files' = PresignTable(files, d)
  /\ UNCHANGED <<units, index, runs, convs, msgs, turn, completedN, everDone, cleanDone>>

\* a pipeline step that touches neither the files table nor the index
PlainStep(r, step, next) ==
  /\ runs[r].pc = step
  /\ RunsQuiet({r}) /\ TurnQuiet
  /\ \E ok \in BOOLEAN :
       runs' = [runs EXCEPT ![r] = StepResult(runs[r], step, next, ok)]
  /\ UNCHANGED <<units, issued, files, index, convs, msgs, turn, completedN, everDone, cleanDone>>

\* background tasks that have started and not yet ended
ActiveRuns ==
  {q \in RunIds : runs[q].pc \notin {"idle", "hook", "respond", "fetch", "ended"}}

\* the scheduled task starts: file_dao.get_by_id (loads the row into the
\* session) and s3 download
RunFetch(r) ==
  /\ runs[r].pc = "fetch"
  /\ Quiet
  /\ Cardinality(ActiveRuns) < MaxActive
  /\ \E ok \in BOOLEAN :
       runs' = [runs EXCEPT ![r] =
                  StepResult([runs[r] EXCEPT !.loaded = files[runs[r].doc]],
                             "fetch", "extract", ok)]
  /\ UNCHANGED <<units, issued, files, index, convs, msgs, turn, completedN, everDone, cleanDone>>

RunExtract(r) == PlainStep(r, "extract", "sanitize")

\* _sanitize_text, then "Extracted text is empty" when nothing is left
RunSanitize(r) == PlainStep(r, "sanitize", "chunk")

\* chunk_text on non-blank text returns at least one chunk
RunChunk(r) ==
  /\ runs[r].pc = "chunk"
  /\ RunsQuiet({r}) /\ TurnQuiet
  /\ \E n \in ChunkCounts :
       runs' = [runs EXCEPT ![r] = [StepOk(runs[r], "chunk", "embed") EXCEPT !.n = n]]
  /\ UNCHANGED <<units, issued, files, index, convs, msgs, turn, completedN, everDone, cleanDone>>

RunEmbed(r) == PlainStep(r, "embed", "upsert")

\* a batch loop that logs a rejected batch and goes on to the next
upsert_ignoring_errors(run, ok) ==
  LET sent == IF run.sent + BATCH_SIZE < run.n THEN run.sent + BATCH_SIZE ELSE run.n
  IN  [run EXCEPT !.sent = sent,
                  !.trace = IF run.sent = 0 THEN Append(run.trace, "upsert") ELSE run.trace,
                  !.pc = IF sent >= run.n THEN "mark" ELSE "upsert"]

\* one iteration of the batch loop of upsert_vectors
UpsertBatchNext(run, ok) ==
  LET sent == IF run.sent + BATCH_SIZE < run.n THEN run.sent + BATCH_SIZE ELSE run.n
      tr == IF run.sent = 0 THEN Append(run.trace, "upsert") ELSE run.trace
  IN  IF ok
      THEN [run EXCEPT !.sent = sent, !.trace = tr,
                       !.pc = IF sent >= run.n THEN "mark" ELSE "upsert"]
      ELSE [run EXCEPT !.pc = "caught", !.failedAt = "upsert", !.trace = tr]

RunUpsertBatch(r) ==
  /\ runs[r].pc = "upsert"
  /\ Quiet
  /\ \E ok \in BOOLEAN :
       /\ runs' = [runs EXCEPT ![r] = UpsertBatchNext(runs[r], ok)]
       /\ index' = IF ok THEN index \cup BatchIds(runs[r].doc, runs[r].sent, runs[r].n)
                         ELSE index
  /\ UNCHANGED <<units, issued, files, convs, msgs, turn, completedN, everDone, cleanDone>>

\* update_status(COMPLETED) + commit
RunMark(r) ==
  /\ runs[r].pc = "mark"
  /\ Quiet
  /\ LET run == runs[r]
         d == run.doc
         moved == run.loaded # COMPLETED /\ files[d] = UPLOADED
     IN
     \E ok \in BOOLEAN :
       IF ok
       THEN /\ runs' = [runs EXCEPT ![r] =
                          Leaving(StepOk(run, "mark", "returning"), "returning", COMPLETED)]
            /\ files' = WriteStatus(files, d, run.loaded, COMPLETED)
            /\ completedN' = IF run.loaded # COMPLETED
                             THEN [completedN EXCEPT ![d] = run.n]
                             ELSE completedN
            /\ everDone' = IF moved THEN everDone \cup {d} ELSE everDone
            /\ cleanDone' = IF moved THEN cleanDone \cup {d} ELSE cleanDone
       ELSE /\ runs' = [runs EXCEPT ![r] = StepRaised(run, "mark")]
            /\ UNCHANGED <<files, completedN, everDone, cleanDone>>
  /\ UNCHANGED <<units, issued, index, convs, msgs, turn>>

\* `except Exception as e`: the error is logged; of the run's locals the
\* except-branch uses only file_id and the session
RunCatch(r) ==
  /\ runs[r].pc = "caught"
  /\ RunsQuiet({r}) /\ TurnQuiet
  /\ runs' = [runs EXCEPT ![r] = [IdleRun EXCEPT !.pc = "failing", !.doc = runs[r].doc,
                                                 !.loaded = runs[r].loaded]]
  /\ UNCHANGED <<units, issued, files, index, convs, msgs, turn, completedN, everDone, cleanDone>>

\* an except-branch that re-raises without the status write
no_failed_write(tbl, run, dbOk) == tbl

\* the status the except-branch leaves behind: a best-effort `failed` write
\* whose own failure is swallowed
FailedWrite(tbl, run, dbOk) ==
  IF dbOk THEN WriteStatus(tbl, run.doc, run.loaded, FAILED) ELSE tbl

\* how the except-branch ends: the triggering exception is re-raised
HandlerExit(run) == "raising"

\* except-branch of process_file_ingestion; _process_ingestion_background
\* logs the re-raised exception and ends
RunFailWrite(r) ==
  /\ runs[r].pc = "failing"
  /\ Quiet
  /\ \E dbOk \in BOOLEAN :
       /\ files' = FailedWrite(files, runs[r], dbOk)
       /\ runs' = [runs EXCEPT ![r] =
                     Leaving(runs[r], HandlerExit(runs[r]), IF dbOk THEN FAILED ELSE NONE)]
  /\ UNCHANGED <<units, issued, index, convs, msgs, turn, completedN, everDone, cleanDone>>

\* the call is over: _process_ingestion_background logs a raised exception
\* and closes the session
RunEnd(r) ==
  /\ runs[r].pc \in {"returning", "raising"}
  /\ RunsQuiet({r}) /\ TurnQuiet
  /\ runs' = [runs EXCEPT ![r] =
                [IdleRun EXCEPT !.pc = IF runs[r].pc = "raising"
                                       THEN BackgroundOutcome(runs[r]) ELSE "ended"]]
  /\ UNCHANGED <<units, issued, files, index, convs, msgs, turn, completedN, everDone, cleanDone>>

\* reset_file_status.py: a fresh session loads the row and writes `uploaded`
ResetFileStatus(d) ==
  /\ Quiet
  /\ files[d] # ABSENT
  /\ files' = WriteStatus(files, d, files[d], UPLOADED)
  /\ cleanDone' = cleanDone \ {d}
  /\ turn' = [turn EXCEPT !.clean = @ \ {d}]
  /\ UNCHANGED <<units, issued, index, runs, convs, msgs, completedN, everDone>>

\* ---------------------------------------------------------- completion client
\* OpenAIClient.__init__ / chat_completion: primary model, then fallbacks
models_to_try ==
  <<"gpt-4.1-mini", "gpt-4.1", "gpt-4o", "gpt-4-turbo", "gpt-4", "gpt-3.5-turbo">>

\* what one candidate's call does: it answers, or raises an error whose text
\* is classified by substring.  "format" carries "Invalid MIME type" within
\* its first 80 characters, "format_late" carries a format marker beyond them.
Outcomes ==
  {"ok", "model_not_found", "format", "format_late", "auth", "rate_limit", "unknown"}

Min(a, b) == IF a < b THEN a ELSE b
Max(a, b) == IF a > b THEN a ELSE b

\* whether one of the candidates tried up to the i-th rejected the format
Rejected(v, i) == \E j \in 1..Min(i, Len(v)) : v[j] \in {"format", "format_late"}

\* the ValueError raised once every candidate has failed
AllFailed(v) ==
  LET last == v[Len(v)]
      allFormat == \A j \in 1..Len(v) : v[j] \in {"format", "format_late"}
      fmt == Rejected(v, Len(v))
  IN  IF last = "model_not_found"
      THEN [ok |-> FALSE, kind |-> "none_available",
            mime |-> \E j \in 1..Min(3, Len(v)) : v[j] = "format",
            allFormat |-> FALSE, fmt |-> fmt]
      ELSE IF last \in {"format", "format_late"}
      THEN [ok |-> FALSE, kind |-> "no_vision", mime |-> FALSE,
            allFormat |-> allFormat, fmt |-> fmt]
      ELSE [ok |-> FALSE, kind |-> "api_error", mime |-> FALSE,
            allFormat |-> FALSE, fmt |-> fmt]

RECURSIVE Attempt(_, _)
Attempt(v, i) ==
  IF i > Len(v) THEN AllFailed(v)
  ELSE IF v[i] = "ok"
  THEN [ok |-> TRUE, kind |-> "ok", mime |-> FALSE, allFormat |-> FALSE,
        fmt |-> Rejected(v, i)]
  ELSE IF v[i] = "auth"
  THEN [ok |-> FALSE, kind |-> "auth", mime |-> FALSE, allFormat |-> FALSE,
        fmt |-> Rejected(v, i)]
  ELSE Attempt(v, i + 1)

chat_completion(v) == Attempt(v, 1)

CompletionResults ==
  {chat_completion(v) : v \in [1..Len(models_to_try) -> Outcomes]}

\* the backend rejects the image format only of a request that holds images
Completions(history) ==
  {r \in CompletionResults :
     r.fmt => \E i \in DOMAIN history : history[i].kind = "images"}

NoResult == [ok |-> FALSE, kind |-> NONE, mime |-> FALSE, allFormat |-> FALSE]

\* keyword parameters chat_completion declares
ChatCompletionParams == {"messages", "temperature"}

\* ------------------------------------------------------------ chat handler
None == "None"
USER == "user"
ASSISTANT == "assistant"

IdleTurn ==
  [pc |-> "idle", conv |-> 0, file |-> 0, cache |-> [d \in Docs |-> NONE],
   fileIds |-> <<>>, hasCompleted |-> FALSE, history |-> <<>>,
   mode |-> NONE, chunks |-> None, calls |-> 0, toolCalls |-> 0,
   retrievals |-> 0, found |-> <<>>, first |-> NoResult, raisedAt |-> NONE, rebuilt |-> FALSE,
   http |-> 0, respChunks |-> <<>>, ever |-> {}, clean |-> {},
   asked |-> 0, before |-> {}]

TurnOver == turn.pc = "idle"

\* router: ValueError -> 400, any other exception -> 500
Fail(t, status, at) ==
  [IdleTurn EXCEPT !.pc = "raise", !.http = status, !.raisedAt = at, !.conv = t.conv,
                   !.fileIds = t.fileIds, !.calls = t.calls, !.first = t.first,
                   !.rebuilt = t.rebuilt]

\* the session's identity map: a row already loaded is not read again
Load(cache, d) == IF cache[d] = NONE THEN [cache EXCEPT ![d] = files[d]] ELSE cache

RECURSIVE LoadAll(_, _)
LoadAll(cache, ids) ==
  IF ids = <<>> THEN cache ELSE LoadAll(Load(cache, Head(ids)), Tail(ids))

\* a user row that carries a retrieval mode
user_message_with_mode(f) ==
  [role |-> USER, file |-> f, mode |-> INLINE, chunks |-> None]

\* message_dao.create(role=USER, content, file_id): the retrieval columns stay null
UserMessage(f) == [role |-> USER, file |-> f, mode |-> None, chunks |-> None]

\* message_dao.create(role=ASSISTANT, content, retrieval_mode, retrieved_chunks)
AssistantMessage(mode, chunks) ==
  [role |-> ASSISTANT, file |-> 0, mode |-> mode, chunks |-> chunks]

\* a table read back newest first
prepend_message(history, m) == <<m>> \o history

\* a row inserted in a later transaction has a later created_at, the order
\* get_by_conversation_id reads by
AppendMessage(history, m) == Append(history, m)

\* a validation that accepts every file id
accept_any_file(tbl, f) == TRUE

\* `if file_id:` file_dao.get_by_id must find the row
ValidateFile(tbl, f) == f = 0 \/ tbl[f] # ABSENT

\* a well-formed conversation id that no row of the table carries and that
\* uuid4 will not generate
UnknownConversation == MaxConvs + 1

\* conversation ids a caller can send: none (0), the id of a stored
\* conversation, or an id that is not in the table
SuppliedIds == {0} \cup ConvIds \cup {UnknownConversation}

\* POST /chat arrives with a conversation id (0: none) and a file id
\* (0: none); the handler is entered
ChatOpen(cArg, fArg) ==
  /\ TurnOver
  /\ Quiet
  /\ Events < MaxEvents
  /\ cArg \in 1..convs \/ (cArg \in {0, UnknownConversation} /\ convs < MaxConvs)
  /\ turn' = [IdleTurn EXCEPT !.pc = "open", !.asked = cArg, !.file = fArg,
                !.before = cleanDone]
  /\ UNCHANGED <<units, issued, files, index, runs, convs, msgs, completedN, everDone, cleanDone>>

\* a handler that creates the conversation under the id the caller supplied:
\* the id of the conversation the turn runs in (0: a new row, fresh id)
conversation_as_supplied(n, cArg) == IF cArg = 0 THEN 0 ELSE cArg

\* get_or_create_conversation: the row with the supplied id when there is
\* one, else a new row whose id is generated (0: a new row, fresh id)
get_or_create_conversation(n, cArg) == IF cArg \in 1..n THEN cArg ELSE 0

\* get_or_create_conversation, file validation, user message + commit
ChatStart ==
  /\ turn.pc = "open"
  /\ RunsQuiet({})
  /\ LET cArg == turn.asked
         fArg == turn.file
         got == get_or_create_conversation(convs, cArg)
     IN
     IF ~ValidateFile(files, fArg)
     THEN /\ turn' = [Fail(IdleTurn, 400, "validate") EXCEPT !.file = fArg]
          /\ UNCHANGED <<convs, msgs>>
     ELSE LET isNew == got \notin 1..convs
              c == IF got = 0 THEN convs + 1 ELSE got
          IN  /\ convs' = IF isNew THEN Max(convs, c) ELSE convs
              /\ msgs' = [msgs EXCEPT ![c] = AppendMessage(@, UserMessage(fArg))]
              /\ turn' = [IdleTurn EXCEPT !.pc = "collect", !.conv = c, !.file = fArg,
                            !.cache = IF fArg = 0 THEN @ ELSE Load(@, fArg),
                            !.ever = everDone, !.clean = cleanDone,
                            !.asked = cArg, !.before = turn.before]
  /\ UNCHANGED <<units, issued, files, index, runs, completedN, everDone, cleanDone>>

\* a collection that ignores the conversation: every document of the table
all_file_ids(ms, acc) ==
  SelectSeq([d \in Docs |-> d], LAMBDA d : files[d] # ABSENT)

\* distinct file ids of the conversation's messages, in order of appearance
RECURSIVE collect_file_ids(_, _)
collect_file_ids(ms, acc) ==
  IF ms = <<>> THEN acc
  ELSE LET f == Head(ms).file IN
       collect_file_ids(Tail(ms),
         IF f # 0 /\ \A i \in DOMAIN acc : acc[i] # f THEN Append(acc, f) ELSE acc)

\* MessageDAO.get_by_conversation_id: the conversation's rows by created_at
get_by_conversation_id(c) == msgs[c]

\* collect_file_ids_from_conversation and lines 333-337 of process_chat
ChatCollect ==
  /\ turn.pc = "collect"
  /\ RunsQuiet({})
  /\ LET ids == collect_file_ids(get_by_conversation_id(turn.conv), <<>>)
         cache == LoadAll(turn.cache, ids)
     IN turn' = [turn EXCEPT !.pc = "build", !.fileIds = ids, !.cache = cache,
                   !.hasCompleted = \E i \in DOMAIN ids : cache[ids[i]] = COMPLETED]
  /\ UNCHANGED <<units, issued, files, index, runs, convs, msgs, completedN, everDone, cleanDone>>

\* a test that inlines every document that has not failed
inline_unless_failed(status) == status \in {UPLOADED, COMPLETED}

\* the test both history builders apply before inlining a document
InlineEligible(status) == status = UPLOADED

\* pages of a stored PDF and characters of its extracted text (0: blank)
MaxPages == 10
TextBudget == 8000
PageCounts == {0, 1, MaxPages, MaxPages + 1}
TextLengths == {0, 1, TextBudget, TextBudget + 1}

\* s3 download + pdf_to_images_base64: the download raises, pymupdf is
\* missing, the conversion raises, or the pages come back as images
RenderOutcomes ==
  {[res |-> e, n |-> 0] : e \in {"download_error", "import_error", "convert_error"}}
    \cup {[res |-> "pages", n |-> p] : p \in PageCounts}

\* second download + extract_text_from_pdf: one of them raises, or text
ExtractOutcomes ==
  {[res |-> "error", n |-> 0]} \cup {[res |-> "chars", n |-> c] : c \in TextLengths}

\* a builder that prefers the extracted text whenever there is some
text_before_images(render, extract) ==
  IF extract.res = "chars" /\ extract.n > 0
  THEN [kind |-> "pdftext", images |-> 0, chars |-> extract.n]
  ELSE [kind |-> "text", images |-> 0, chars |-> 0]

\* the prompt message build_message_history makes of a message whose
\* document is `uploaded`: images of the first max_pages pages; plain text
\* when there is no page; after an exception the extracted text, cut to the
\* budget, plain text when that is blank or fails too (with a note when
\* pymupdf is what was missing)
Materialize(render, extract) ==
  IF render.res = "pages"
  THEN IF render.n > 0
       THEN [kind |-> "images", images |-> Min(render.n, MaxPages), chars |-> 0]
       ELSE [kind |-> "text", images |-> 0, chars |-> 0]
  ELSE IF extract.res = "chars" /\ extract.n > 0
  THEN [kind |-> "pdftext", images |-> 0, chars |-> Min(extract.n, TextBudget)]
  ELSE IF extract.res = "error" /\ render.res = "import_error"
  THEN [kind |-> "note", images |-> 0, chars |-> 0]
  ELSE [kind |-> "text", images |-> 0, chars |-> 0]

\* what a message referencing an uploaded document can become
RenderKinds == {Materialize(r, x).kind : r \in RenderOutcomes, x \in ExtractOutcomes}
RebuildKinds == {"images", "pdftext", "text"}

BuildHistory(ms, cache, kinds, k) ==
  [i \in DOMAIN ms |->
     [role |-> ms[i].role, file |-> ms[i].file,
      kind |-> IF ms[i].file # 0 /\ InlineEligible(cache[ms[i].file])
               THEN k[i] ELSE "text"]]

HistoryChoices(ms, cache, kinds) ==
  {BuildHistory(ms, cache, kinds, k) : k \in [DOMAIN ms -> kinds]}

\* build_message_history, then the branch on has_completed_files and file_ids
ChatBuild ==
  /\ turn.pc = "build"
  /\ RunsQuiet({})
  /\ \E h \in HistoryChoices(get_by_conversation_id(turn.conv), turn.cache, RenderKinds) :
       turn' = [turn EXCEPT !.history = h, !.mode = INLINE,
                  !.pc = IF turn.hasCompleted /\ turn.fileIds # <<>>
                         THEN "tools" ELSE "inline"]
  /\ UNCHANGED <<units, issued, files, index, runs, convs, msgs, completedN, everDone, cleanDone>>

Project(r) == [ok |-> r.ok, kind |-> r.kind, mime |-> r.mime, allFormat |-> r.allFormat]

\* inline mode: first chat_completion call and the test on the error text
ChatInlineCall ==
  /\ turn.pc = "inline"
  /\ RunsQuiet({})
  /\ \E r \in Completions(turn.history) :
       LET t == [turn EXCEPT !.calls = @ + 1, !.first = Project(r)] IN
       turn' = IF r.ok THEN [t EXCEPT !.pc = "store"]
               ELSE IF r.mime THEN [t EXCEPT !.pc = "rebuild"]
               ELSE Fail(t, 400, "inline")
  /\ UNCHANGED <<units, issued, files, index, runs, convs, msgs, completedN, everDone, cleanDone>>

\* build_message_history_with_text_extraction
ChatRebuild ==
  /\ turn.pc = "rebuild"
  /\ RunsQuiet({})
  /\ \E h \in HistoryChoices(get_by_conversation_id(turn.conv), turn.cache, RebuildKinds) :
       turn' = [turn EXCEPT !.history = h, !.rebuilt = TRUE, !.pc = "retry"]
  /\ UNCHANGED <<units, issued, files, index, runs, convs, msgs, completedN, everDone, cleanDone>>

\* the retry; its failure leaves the except-block
ChatRetryCall ==
  /\ turn.pc = "retry"
  /\ RunsQuiet({})
  /\ \E r \in Completions(turn.history) :
       LET t == [turn EXCEPT !.calls = @ + 1] IN
       turn' = IF r.ok THEN [t EXCEPT !.pc = "store"] ELSE Fail(t, 400, "retry")
  /\ UNCHANGED <<units, issued, files, index, runs, convs, msgs, completedN, everDone, cleanDone>>

\* OpenAIClient.get_semantic_search_tool: it returns the tool's description or
\* raises
get_semantic_search_tool == {"tool", "raise"}

\* OpenAIClient.chat_completion_with_tools: it returns the answer with the
\* tool calls the backend requested (none when it answered directly), or raises
chat_completion_with_tools ==
  {[raised |-> TRUE, tool_calls |-> 0]}
    \cup {[raised |-> FALSE, tool_calls |-> k] : k \in 0..MaxToolCalls}

\* tools = [get_semantic_search_tool()], before the try-block
ChatToolList ==
  /\ turn.pc = "tools"
  /\ RunsQuiet({})
  /\ \E tool \in get_semantic_search_tool :
       turn' = IF tool # "raise" THEN [turn EXCEPT !.pc = "toolcall"]
               ELSE Fail(turn, 500, "tools")
  /\ UNCHANGED <<units, issued, files, index, runs, convs, msgs, completedN, everDone, cleanDone>>

\* first call of the try-block and the branch on tool_calls
ChatToolCompletion ==
  /\ turn.pc = "toolcall"
  /\ RunsQuiet({})
  /\ \E r \in chat_completion_with_tools :
       LET t == [turn EXCEPT !.calls = @ + 1] IN
       turn' = IF r.raised THEN [t EXCEPT !.pc = "fallback", !.raisedAt = "toolcall"]
               ELSE IF r.tool_calls = 0 THEN [t EXCEPT !.pc = "store", !.mode = INLINE]
               ELSE [t EXCEPT !.pc = "exec", !.toolCalls = r.tool_calls]
  /\ UNCHANGED <<units, issued, files, index, runs, convs, msgs, completedN, everDone, cleanDone>>

\* the filter string names every collected file id
FilterIds(ids) == {ids[i] : i \in DOMAIN ids}

\* a query that ignores the filter
query_unfiltered(ids) == {<<>>} \cup {<<e>> : e \in {x \in index : x[2] = 0}}

\* query_vectors: entries of the index that satisfy the filter
QueryResults(ids) ==
  {<<>>} \cup {<<e>> : e \in {x \in index : x[1] \in FilterIds(ids) /\ x[2] = 0}}

RECURSIVE Repeat(_, _)
Repeat(x, n) == IF n = 0 THEN <<>> ELSE <<x>> \o Repeat(x, n - 1)

\* the loop over tool_calls, then the two appends to message_history
ChatExecTools ==
  /\ turn.pc = "exec"
  /\ RunsQuiet({})
  /\ \E ok \in BOOLEAN, res \in QueryResults(turn.fileIds) :
       turn' = IF ~ok THEN [turn EXCEPT !.pc = "fallback", !.raisedAt = "exec"]
               ELSE [turn EXCEPT !.pc = "second", !.retrievals = turn.toolCalls,
                       !.found = res,
                       !.history = @ \o <<[role |-> ASSISTANT, file |-> 0, kind |-> "tool_calls"]>>
                                     \o Repeat([role |-> "tool", file |-> 0, kind |-> "tool_result"],
                                               turn.toolCalls)]
  /\ UNCHANGED <<units, issued, files, index, runs, convs, msgs, completedN, everDone, cleanDone>>

\* chat_completion(messages=..., tools=None)
ChatSecondCompletion ==
  /\ turn.pc = "second"
  /\ RunsQuiet({})
  /\ IF {"messages", "tools"} \subseteq ChatCompletionParams
     THEN \E r \in Completions(turn.history) :
            turn' = IF r.ok THEN [turn EXCEPT !.calls = @ + 1, !.pc = "store", !.mode = RAG,
                                    !.chunks = turn.found]
                    ELSE [turn EXCEPT !.calls = @ + 1, !.pc = "fallback", !.raisedAt = "second"]
     ELSE turn' = [turn EXCEPT !.pc = "fallback", !.raisedAt = "second"]
  /\ UNCHANGED <<units, issued, files, index, runs, convs, msgs, completedN, everDone, cleanDone>>

\* except-branch of the RAG try-block: one plain chat_completion call
ChatFallback ==
  /\ turn.pc = "fallback"
  /\ RunsQuiet({})
  /\ \E r \in Completions(turn.history) :
       LET t == [turn EXCEPT !.calls = @ + 1] IN
       turn' = IF r.ok THEN [t EXCEPT !.pc = "store", !.mode = INLINE]
               ELSE Fail(t, 400, "fallback")
  /\ UNCHANGED <<units, issued, files, index, runs, convs, msgs, completedN, everDone, cleanDone>>

\* assistant message + commit, then the router's response
ChatStore ==
  /\ turn.pc = "store"
  /\ RunsQuiet({})
  /\ msgs' = [msgs EXCEPT ![turn.conv] =
                AppendMessage(@, AssistantMessage(turn.mode, turn.chunks))]
  /\ turn' = [IdleTurn EXCEPT !.pc = "return", !.http = 200, !.conv = turn.conv,
                !.asked = turn.asked,
                !.fileIds = turn.fileIds, !.mode = turn.mode, !.chunks = turn.chunks,
                !.respChunks = IF turn.chunks = None THEN <<>> ELSE turn.chunks]
  /\ UNCHANGED <<units, issued, files, index, runs, convs, completedN, everDone, cleanDone>>

\* the request is answered (ChatResponse, or HTTPException 400 / 500) and
\* the handler's locals are gone
ChatRespond ==
  /\ turn.pc \in {"return", "raise"}
  /\ RunsQuiet({})
  /\ turn' = IdleTurn
  /\ UNCHANGED <<units, issued, files, index, runs, convs, msgs, completedN, everDone, cleanDone>>

\* no call is being followed
Off == [pc |-> "off"]
NoUnits == llm = Off /\ ups = Off /\ chk = Off /\ lst = Off /\ hst = Off

Init ==
  /\ NoUnits
  /\ files = [d \in Docs |-> ABSENT]
  /\ index = {}
  /\ runs = [r \in RunIds |-> IdleRun]
  /\ convs = 0
  /\ msgs = [c \in ConvIds |-> <<>>]
  /\ turn = IdleTurn
  /\ issued = {}
  /\ completedN = [d \in Docs |-> 0]
  /\ everDone = {}
  /\ cleanDone = {}

\* the tables some time into operation: the documents uploaded so far have
\* been through ingestion, the index holds the one chunk of each completed
\* document, and the log of past upload events and conversations is not kept
InitStocked ==
  /\ NoUnits
  /\ files \in [Docs -> IngestionStatus \cup {ABSENT}]
  /\ \A d \in Docs : files[d] # ABSENT => \A e \in Docs : e < d => files[e] # ABSENT
  /\ index = {VectorId(d, 0) : d \in {e \in Docs : files[e] = COMPLETED}}
  /\ runs = [r \in RunIds |-> IdleRun]
  /\ convs = 0
  /\ msgs = [c \in ConvIds |-> <<>>]
  /\ turn = IdleTurn
  /\ issued = {}
  /\ completedN = [d \in Docs |-> IF files[d] = COMPLETED THEN 1 ELSE 0]
  /\ everDone = {d \in Docs : files[d] = COMPLETED}
  /\ cleanDone = everDone

NextNoReset ==
  \/ \E k \in Keys : IngestFile(k)
  \/ \E r \in RunIds : HookCommit(r)
  \/ \E r \in RunIds : HookRespond(r)
  \/ \E d \in Docs : GeneratePresignedUrl(d)
  \/ \E r \in RunIds : RunFetch(r)
  \/ \E r \in RunIds : RunExtract(r)
  \/ \E r \in RunIds : RunSanitize(r)
  \/ \E r \in RunIds : RunChunk(r)
  \/ \E r \in RunIds : RunEmbed(r)
  \/ \E r \in RunIds : RunUpsertBatch(r)
  \/ \E r \in RunIds : RunMark(r)
  \/ \E r \in RunIds : RunCatch(r)
  \/ \E r \in RunIds : RunFailWrite(r)
  \/ \E r \in RunIds : RunEnd(r)
  \/ \E c \in SuppliedIds, f \in {0} \cup Docs : ChatOpen(c, f)
  \/ ChatStart
  \/ ChatCollect
  \/ ChatBuild
  \/ ChatInlineCall
  \/ ChatRebuild
  \/ ChatRetryCall
  \/ ChatToolList
  \/ ChatToolCompletion
  \/ ChatExecTools
  \/ ChatSecondCompletion
  \/ ChatFallback
  \/ ChatStore
  \/ ChatRespond

Next ==
  \/ NextNoReset
  \/ \E d \in Docs : ResetFileStatus(d)

Spec == Init /\ [][Next]_vars

\* behaviours without the administrative reset
SpecNoReset == Init /\ [][NextNoReset]_vars

\* behaviours without the reset in which every request is answered, every
\* scheduled background task runs and every call returns or raises
SpecNoResetFair == Init /\ [][NextNoReset]_vars /\ WF_vars(NextNoReset)

\* behaviours that start from tables already holding documents
SpecStocked == InitStocked /\ [][Next]_vars

\* the chat requests alone
NextChat ==
  \/ \E c \in SuppliedIds, f \in {0} \cup Docs : ChatOpen(c, f)
  \/ ChatStart
  \/ ChatCollect
  \/ ChatBuild
  \/ ChatInlineCall
  \/ ChatRebuild
  \/ ChatRetryCall
  \/ ChatToolList
  \/ ChatToolCompletion
  \/ ChatExecTools
  \/ ChatSecondCompletion
  \/ ChatFallback
  \/ ChatStore
  \/ ChatRespond

\* chat turns over tables that already hold documents, while no upload event
\* arrives and no ingestion runs
SpecChat == InitStocked /\ [][NextChat]_vars

\* ------------------------------------------- chat_completion, call by call
\* model ids the start-up listing (client.models.list) may have returned, in
\* the backend's order; <<>> when the listing failed or was empty
AvailableLists ==
  {<<>>,
   <<"gpt-4.1-mini", "gpt-4o">>,
   <<"gpt-4o", "text-embedding-3-small", "gpt-4.1-mini">>,
   <<"text-embedding-3-small">>}

InSeq(x, q) == \E i \in DOMAIN q : q[i] = x

\* lines 75-81: the listed candidates in the order of the listing, then the
\* candidates not listed; without a listing the primary, then the fallbacks
ModelsToTry(available) ==
  IF available # <<>>
  THEN LET available_to_try == SelectSeq(available, LAMBDA m : InSeq(m, models_to_try))
           other_models == SelectSeq(models_to_try, LAMBDA m : ~InSeq(m, available_to_try))
       IN  available_to_try \o other_models
  ELSE models_to_try

\* texts of the errors a candidate's call raises: the class of the failure and
\* the substrings the client looks for that the text holds ("401" also shows
\* up in the figures of a rate-limit message)
ErrorTexts ==
  {[class |-> "model_not_found", marks |-> {"model_not_found"}],
   [class |-> "format", marks |-> {"Invalid MIME type"}],
   [class |-> "auth", marks |-> {"401"}],
   [class |-> "rate_limit", marks |-> {"rate_limit"}],
   [class |-> "rate_limit", marks |-> {"rate_limit", "401"}],
   [class |-> "unknown", marks |-> {}]}

\* the if / elif chain of the except-branch (lines 110-128)
OnError(text) ==
  IF "model_not_found" \in text.marks THEN "continue"
  ELSE IF "Invalid MIME type" \in text.marks THEN "continue"
  ELSE IF "401" \in text.marks THEN "raise"
  ELSE "continue"

\* the ValueError built once the loop is over (lines 131-150): which models
\* its text names and whose error summaries it carries
FailureReport(order, details) ==
  LET last == details[Len(details)].text
      first3 == {details[j].model : j \in 1..Min(3, Len(details))}
      all == {order[j] : j \in DOMAIN order}
  IN  IF "model_not_found" \in last.marks \/ "project" \in last.marks
      THEN [kind |-> "none_available", names |-> all, summaries |-> first3]
      ELSE IF "Invalid MIME type" \in last.marks
      THEN [kind |-> "no_vision", names |-> all, summaries |-> {}]
      ELSE [kind |-> "api_error", names |-> {}, summaries |-> {}]

NoReport == [kind |-> NONE, names |-> {}, summaries |-> {}]

\* chat_completion is entered: models_to_try is computed
LlmCall(available) ==
  /\ llm.pc = "off"
  /\ llm' = [pc |-> "loop", order |-> ModelsToTry(available), i |-> 1, details |-> <<>>,
             tried |-> <<>>, by |-> NONE, report |-> NoReport]
  /\ UNCHANGED <<tables, ups, chk, lst, hst>>

\* one iteration of `for model in models_to_try`
LlmAttempt ==
  /\ llm.pc = "loop" /\ llm.i <= Len(llm.order)
  /\ LET model == llm.order[llm.i]
         t == [llm EXCEPT !.tried = Append(@, model), !.i = @ + 1]
     IN  \/ llm' = [t EXCEPT !.pc = "returned", !.by = model]
         \/ \E text \in ErrorTexts :
              LET u == [t EXCEPT !.details = Append(@, [model |-> model, text |-> text])]
              IN  llm' = IF OnError(text) = "raise"
                         THEN [u EXCEPT !.pc = "raised",
                                 !.report = [kind |-> "auth", names |-> {}, summaries |-> {}]]
                         ELSE u
  /\ UNCHANGED <<tables, ups, chk, lst, hst>>

\* the loop is over without a response
LlmExhausted ==
  /\ llm.pc = "loop" /\ llm.i > Len(llm.order)
  /\ llm' = [llm EXCEPT !.pc = "raised", !.report = FailureReport(llm.order, llm.details)]
  /\ UNCHANGED <<tables, ups, chk, lst, hst>>

NextCompletion ==
  \/ \E available \in AvailableLists : LlmCall(available)
  \/ LlmAttempt
  \/ LlmExhausted

\* one chat_completion call of a client constructed with any listing
SpecCompletion == Init /\ [][NextCompletion]_vars

\* --------------------------------------------- upsert_vectors, batch by batch
\* lengths of the sequences a caller may pass: none, one, full batches, and one
\* more than full batches
Lengths == {0} \cup ChunkCounts \cup {b * BATCH_SIZE : b \in 1..(MaxBatches - 1)}

\* a call that zips whatever it is given
lengths_unchecked(nv, ni, nm) == TRUE

\* len(vectors) == len(ids) == len(metadata)
LengthsAgree(nv, ni, nm) == nv = ni /\ ni = nm

\* upsert_vectors is entered with three sequences about document 1
UpsertCall(nv, ni, nm, configured) ==
  /\ ups.pc = "off"
  /\ ups' = [pc |-> "check", nv |-> nv, ni |-> ni, nm |-> nm, configured |-> configured,
             n |-> 0, i |-> 0, posted |-> <<>>, total |-> 0, error |-> NONE]
  /\ UNCHANGED <<tables, llm, chk, lst, hst>>

\* the credentials test, the length test and the zip into data
UpsertCheck ==
  /\ ups.pc = "check"
  /\ ups' = IF ~ups.configured THEN [ups EXCEPT !.pc = "raised", !.error = "credentials"]
            ELSE IF ~LengthsAgree(ups.nv, ups.ni, ups.nm)
            THEN [ups EXCEPT !.pc = "raised", !.error = "length"]
            ELSE [ups EXCEPT !.pc = "loop", !.n = Min(ups.nv, Min(ups.ni, ups.nm))]
  /\ UNCHANGED <<tables, llm, chk, lst, hst>>

\* one iteration of `for i in range(0, len(data), BATCH_SIZE)`
UpsertPost ==
  /\ ups.pc = "loop" /\ ups.i < ups.n
  /\ LET batch == BatchIds(1, ups.i, ups.n) IN
     \E ok \in BOOLEAN :
       /\ ups' = IF ok
                 THEN [ups EXCEPT !.posted = Append(@, batch), !.i = @ + BATCH_SIZE,
                                  !.total = @ + Cardinality(batch)]
                 ELSE [ups EXCEPT !.posted = Append(@, batch), !.pc = "raised",
                                  !.error = "transport"]
       /\ index' = IF ok THEN index \cup batch ELSE index
  /\ UNCHANGED <<files, runs, convs, msgs, turn, issued, completedN, everDone, cleanDone,
                 llm, chk, lst, hst>>

\* return {"upserted": total_upserted}
UpsertReturn ==
  /\ ups.pc = "loop" /\ ups.i >= ups.n
  /\ ups' = [ups EXCEPT !.pc = "returned"]
  /\ UNCHANGED <<tables, llm, chk, lst, hst>>

NextUpsert ==
  \/ \E nv \in Lengths, ni \in Lengths, nm \in Lengths, configured \in BOOLEAN :
       UpsertCall(nv, ni, nm, configured)
  \/ UpsertCheck
  \/ UpsertPost
  \/ UpsertReturn

\* one upsert_vectors call on an empty index
SpecUpsert == Init /\ [][NextUpsert]_vars

\* ------------------------------------------------ chunk_text, window by window
\* characters: a letter, a blank (whitespace and word boundary) and a full
\* stop (word boundary, not whitespace)
Alphabet == {"a", " ", "."}
Whitespace == {" "}
Boundary == {" ", "."}

Texts == UNION {[1..n -> Alphabet] : n \in 0..MaxText}

\* chunk_size and overlap, in tokens; overlaps below, at and above chunk_size
ChunkSizes == {1, 2, 4}
Overlaps == {0, 1, 2}

\* the texts chunked with a chunk_size: any text for the small sizes; for the
\* largest, whose boundary search reaches back into the window, twelve
\* letters followed by any text
Letters(n) == [i \in 1..n |-> "a"]
TextsFor(chunk_size) ==
  IF chunk_size < 4 THEN Texts ELSE {Letters(12) \o t : t \in Texts}

\* approximate characters per token
CharsPerToken == 4

RECURSIVE LStrip(_)
LStrip(q) == IF q # <<>> /\ Head(q) \in Whitespace THEN LStrip(Tail(q)) ELSE q

RECURSIVE RStrip(_)
RStrip(q) ==
  IF q # <<>> /\ q[Len(q)] \in Whitespace THEN RStrip(SubSeq(q, 1, Len(q) - 1)) ELSE q

\* a chunker that keeps the blanks around a chunk
no_strip(q) == q

\* str.strip()
Strip(q) == RStrip(LStrip(q))

\* text[a:b], positions counted from 0
Slice(text, a, b) == SubSeq(text, a + 1, Min(b, Len(text)))

\* the backward search for a word boundary: boundary_pos
BoundaryPos(text, start, end, search_limit) ==
  LET hits == {i \in (Max(start, end - search_limit) + 1)..end :
                 i < Len(text) /\ text[i + 1] \in Boundary}
  IN  IF hits = {} THEN end ELSE (CHOOSE i \in hits : \A j \in hits : j <= i) + 1

\* a window that starts after the previous one
next_start_after(start, end, overlap_chars) == end + 1

\* a window that starts overlap_chars before the end of the previous one
next_start_back(start, end, overlap_chars) == end - overlap_chars

\* start = max(start + 1, end - overlap_chars)
NextStart(start, end, overlap_chars) == Max(start + 1, end - overlap_chars)

\* chunk_text is entered
ChunkCall(text, chunk_size, overlap) ==
  /\ chk.pc = "off"
  /\ chk' = [pc |-> "guards", text |-> text, chunk_size |-> chunk_size, overlap |-> overlap,
             start |-> 0, windows |-> <<>>, chunks |-> <<>>]
  /\ UNCHANGED <<tables, llm, ups, lst, hst>>

\* the two early returns
ChunkGuards ==
  /\ chk.pc = "guards"
  /\ chk' = IF chk.text = <<>> \/ Strip(chk.text) = <<>>
            THEN [chk EXCEPT !.pc = "returned"]
            ELSE IF Len(chk.text) <= chk.chunk_size * CharsPerToken
            THEN [chk EXCEPT !.pc = "returned", !.chunks = <<Strip(chk.text)>>]
            ELSE [chk EXCEPT !.pc = "loop"]
  /\ UNCHANGED <<tables, llm, ups, lst, hst>>

\* one iteration of `while start < text_length`
ChunkWindow ==
  /\ chk.pc = "loop"
  /\ LET text == chk.text
         text_length == Len(text)
         chunk_size_chars == chk.chunk_size * CharsPerToken
         overlap_chars == chk.overlap * CharsPerToken
         start == chk.start
         end0 == start + chunk_size_chars
         end == IF end0 < text_length
                THEN BoundaryPos(text, start, end0, chunk_size_chars \div 5)
                ELSE end0
         chunk == Strip(Slice(text, start, end))
         next == NextStart(start, end, overlap_chars)
     IN  chk' = [chk EXCEPT
                   !.windows = Append(@, <<start, end>>),
                   !.chunks = IF chunk # <<>> THEN Append(@, chunk) ELSE @,
                   !.start = IF end >= text_length THEN @ ELSE next,
                   !.pc = IF end >= text_length \/ next >= text_length
                          THEN "returned" ELSE "loop"]
  /\ UNCHANGED <<tables, llm, ups, lst, hst>>

NextChunker ==
  \/ /\ chk.pc = "off"
     /\ \E chunk_size \in ChunkSizes, overlap \in Overlaps :
          \E text \in TextsFor(chunk_size) : ChunkCall(text, chunk_size, overlap)
  \/ ChunkGuards
  \/ ChunkWindow

\* one chunk_text call
SpecChunker == Init /\ [][NextChunker]_vars

\* the calls followed to their return: the smallest chunk_size, under which
\* every overlap but 0 is at or above chunk_size, and the texts of up to
\* MaxText - 3 characters
LiveTexts == {t \in Texts : Len(t) <= MaxText - 3}

NextChunkerLive ==
  \/ /\ chk.pc = "off"
     /\ \E overlap \in Overlaps, text \in LiveTexts : ChunkCall(text, 1, overlap)
  \/ ChunkGuards
  \/ ChunkWindow

\* one chunk_text call that the interpreter keeps executing
SpecChunkerLive ==
  Init /\ [][NextChunkerLive]_vars /\ WF_vars(ChunkGuards \/ ChunkWindow)

\* ------------------------------------------- GET /chats, page after page
\* the stored conversations: conversation c of 1..N carries created_at[c],
\* the now() of the transaction that inserted it; two transactions may have
\* started at the same instant. Conversations are numbered by created_at.
Stored ==
  UNION {{st \in [1..n -> 1..n] : \A c \in 1..(n - 1) : st[c] <= st[c + 1]} :
           n \in 0..MaxListed}

\* limit: Query(20, ge=1, le=100); offset: Query(0, ge=0)
Limits == 1..2
Offsets(created_at) == 0..(Len(created_at) + 1)

\* the orders in which ORDER BY created_at DESC may return the rows: rows
\* with equal created_at come in an order the database chooses per query
Orderings(created_at) ==
  LET n == Len(created_at)
  IN  {o \in [1..n -> 1..n] :
         /\ \A i, j \in 1..n : i # j => o[i] # o[j]
         /\ \A i \in 1..(n - 1) : created_at[o[i]] >= created_at[o[i + 1]]}

\* .limit(limit).offset(offset) of the ordered rows
PageOf(ordered, limit, offset) == SubSeq(ordered, offset + 1, Min(offset + limit, Len(ordered)))

\* a client starts listing with limit and offset
ListOpen(created_at, limit, offset) ==
  /\ lst.pc = "off"
  /\ lst' = [pc |-> "asked", created_at |-> created_at, limit |-> limit, first |-> offset,
             offset |-> offset, pages |-> <<>>]
  /\ UNCHANGED <<tables, llm, ups, chk, hst>>

\* list_conversations answers the request: the count, then the page
ListConversations ==
  /\ lst.pc = "asked"
  /\ \E ordered \in Orderings(lst.created_at) :
       lst' = [lst EXCEPT
                 !.pc = "answered",
                 !.pages = Append(@, [chats |-> PageOf(ordered, lst.limit, lst.offset),
                                      total |-> Len(lst.created_at),
                                      limit |-> lst.limit,
                                      offset |-> lst.offset])]
  /\ UNCHANGED <<tables, llm, ups, chk, hst>>

\* the client asks for the next page while the total says there is one
ListNextPage ==
  /\ lst.pc = "answered"
  /\ lst.offset + lst.limit < lst.pages[Len(lst.pages)].total
  /\ lst' = [lst EXCEPT !.pc = "asked", !.offset = @ + lst.limit]
  /\ UNCHANGED <<tables, llm, ups, chk, hst>>

\* the client has every page
ListDone ==
  /\ lst.pc = "answered"
  /\ lst.offset + lst.limit >= lst.pages[Len(lst.pages)].total
  /\ lst' = [lst EXCEPT !.pc = "done"]
  /\ UNCHANGED <<tables, llm, ups, chk, hst>>

NextListing ==
  \/ /\ lst.pc = "off"
     /\ \E created_at \in Stored :
          \E limit \in Limits, offset \in Offsets(created_at) :
            ListOpen(created_at, limit, offset)
  \/ ListConversations
  \/ ListNextPage
  \/ ListDone

\* one client paging through GET /chats while no conversation is created
SpecListing == Init /\ [][NextListing]_vars

\* ------------------------------ build_message_history, message by message
\* stored messages of a conversation about one document (file 1) or none
StoredMessages ==
  UNION {[1..n -> [role : {USER, ASSISTANT}, file : {0, 1}]] : n \in 0..MaxHistory}

\* the messages are read (get_by_conversation_id); status is the document's
\* ingestion_status as the session holds it, ABSENT when it has no row
HistoryCall(ms, status) ==
  /\ hst.pc = "off"
  /\ hst' = [pc |-> "loop", ms |-> ms, status |-> status, out |-> <<>>, log |-> <<>>]
  /\ UNCHANGED <<tables, llm, ups, chk, lst>>

\* one iteration of `for message in messages`
HistoryMessage ==
  /\ hst.pc = "loop"
  /\ Len(hst.out) < Len(hst.ms)
  /\ LET m == hst.ms[Len(hst.out) + 1] IN
     IF m.file # 0 /\ hst.status # ABSENT /\ InlineEligible(hst.status)
     THEN \E render \in RenderOutcomes, extract \in ExtractOutcomes :
            LET x == IF render.res = "pages" THEN [res |-> NONE, n |-> 0] ELSE extract
                made == Materialize(render, x)
            IN  hst' = [hst EXCEPT
                          !.out = Append(@, [role |-> m.role, kind |-> made.kind,
                                             images |-> made.images, chars |-> made.chars]),
                          !.log = Append(@, [render |-> render, extract |-> x])]
     ELSE hst' = [hst EXCEPT
                    !.out = Append(@, [role |-> m.role, kind |-> "text",
                                       images |-> 0, chars |-> 0]),
                    !.log = Append(@, [render |-> [res |-> NONE, n |-> 0],
                                       extract |-> [res |-> NONE, n |-> 0]])]
  /\ UNCHANGED <<tables, llm, ups, chk, lst>>

\* return openai_messages
HistoryReturn ==
  /\ hst.pc = "loop"
  /\ Len(hst.out) = Len(hst.ms)
  /\ hst' = [hst EXCEPT !.pc = "returned"]
  /\ UNCHANGED <<tables, llm, ups, chk, lst>>

NextHistory ==
  \/ /\ hst.pc = "off"
     /\ \E ms \in StoredMessages, status \in IngestionStatus \cup {ABSENT} :
          HistoryCall(ms, status)
  \/ HistoryMessage
  \/ HistoryReturn

\* one build_message_history call
SpecHistory == Init /\ [][NextHistory]_vars

\* ===================================================================== claims

\* C1: a chat turn in a conversation none of whose messages (the one just
\* added included) references a document never enters the RAG branch: it
\* resolves to mode `inline`, stores no retrieved chunks and answers with an
\* empty retrieved-chunks list, whatever the status of the documents that
\* exist elsewhere.
C1_DocFreeTurnIsInline ==
  (/\ turn.pc # "idle"
   /\ turn.conv # 0
   /\ \A i \in DOMAIN msgs[turn.conv] : msgs[turn.conv][i].file = 0)
  => /\ turn.fileIds = <<>>
     /\ turn.pc \notin {"tools", "toolcall", "exec", "second", "fallback"}
     /\ turn.pc \in {"store", "return"} => turn.mode = INLINE /\ turn.chunks = None
     /\ turn.pc = "return" =>
          /\ turn.http = 200
          /\ turn.respChunks = <<>>
          /\ LET ms == msgs[turn.conv] IN
             ms[Len(ms)].mode = INLINE /\ ms[Len(ms)].chunks = None

\* C1 witness: a document-free turn is answered while a document is completed
C1_Witness ==
  /\ turn.pc = "return"
  /\ turn.mode = INLINE
  /\ \A i \in DOMAIN msgs[turn.conv] : msgs[turn.conv][i].file = 0
  /\ \E d \in Docs : files[d] = COMPLETED

\* C2: a turn in a conversation whose only referenced document is `completed`
\* resolves to mode `rag` with a non-null retrieved-chunks list, whether or not
\* the completion backend requested the semantic_search tool.
C2_CompletedTurnIsRag ==
  (/\ turn.pc = "store"
   /\ Len(turn.fileIds) = 1
   /\ turn.cache[turn.fileIds[1]] = COMPLETED
   /\ files[turn.fileIds[1]] = COMPLETED)
  => turn.mode = RAG /\ turn.chunks # None

\* C3 (as stated): once a run has moved document D from `uploaded` to
\* `completed`, every later turn builds its prompt with the messages that
\* reference D as plain text only.
C3_NoInlineAfterCompleted ==
  \A i \in DOMAIN turn.history :
    turn.history[i].file \in turn.ever => turn.history[i].kind = "text"

\* C3 (amended): the same, for as long as D's status has not been reset to
\* `uploaded` since that run.
C3_NoInlineUntilReset ==
  \A i \in DOMAIN turn.history :
    turn.history[i].file \in turn.clean => turn.history[i].kind = "text"

\* C3 witness: a later turn has built its prompt over a message that
\* references a document completed before the turn and not reset since
C3_Witness ==
  /\ turn.pc \in {"inline", "tools"}
  /\ \E i \in DOMAIN turn.history :
       /\ turn.history[i].file \in turn.clean
       /\ turn.history[i].kind = "text"

\* C4: without an administrative reset, a document's status changes only from
\* `uploaded` to `completed` or from `uploaded` to `failed` (after its row is
\* created as `uploaded`).
C4_StatusOnlyLeavesUploaded ==
  [][\A d \in Docs :
       files'[d] # files[d] =>
         \/ files[d] = ABSENT /\ files'[d] = UPLOADED
         \/ files[d] = UPLOADED /\ files'[d] \in {COMPLETED, FAILED}]_vars

C6_OrderedPipeline ==
  /\ \A r \in RunIds :
       LET run == runs[r] IN
       /\ Len(run.trace) <= Len(StepOrder)
       /\ \A i \in DOMAIN run.trace : run.trace[i] = StepOrder[i]
       /\ run.failedAt # NONE =>
            run.pc = "caught" /\ run.trace[Len(run.trace)] = run.failedAt
       /\ run.pc \in {"mark", "returning"} =>
            /\ run.n > 0
            /\ run.sent = run.n
            /\ \A i \in 0..(run.n - 1) : VectorId(run.doc, i) \in index
  /\ \A d \in Docs :
       files[d] = COMPLETED =>
         /\ completedN[d] > 0
         /\ \A i \in 0..(completedN[d] - 1) : VectorId(d, i) \in index

\* C6 witness: a run of more than one batch has written `completed`
C6_Witness ==
  \E r \in RunIds :
    /\ runs[r].pc = "returning"
    /\ runs[r].n > BATCH_SIZE
    /\ runs[r].wrote = COMPLETED
    /\ files[runs[r].doc] = COMPLETED

\* C7: when the tool-enabled completion of a RAG-eligible turn answers without
\* requesting the tool, one retrieval pass is still performed and the turn is
\* recorded as mode `rag` with the retrieved snippets.
C7_ForcedRetrieval ==
  (/\ turn.pc = "store"
   /\ turn.hasCompleted /\ turn.fileIds # <<>>
   /\ turn.raisedAt = NONE
   /\ turn.toolCalls = 0)
  => turn.retrievals = 1 /\ turn.mode = RAG /\ turn.chunks # None

\* C8: when a step of the RAG branch raises (the tool list, the tool-enabled
\* completion, the tool execution or the second completion) the turn does not
\* fail: it makes one further tool-less completion call and, when that
\* succeeds, stores the answer with mode `inline` and no retrieved snippets.
C8_RagFallback ==
  turn.raisedAt \in {"tools", "toolcall", "exec", "second"} =>
    /\ turn.pc \in {"fallback", "store"}
    /\ turn.pc = "store" => turn.mode = INLINE /\ turn.chunks = None /\ turn.calls = 2

\* C9: when the first completion call of an inline-mode turn is rejected for
\* the image format by every candidate model, the history is rebuilt and
\* exactly one more call is made; an inline-mode turn makes at most two calls
\* and a failed retry propagates.
C9_RetryOnFormatRejection ==
  /\ turn.first.allFormat =>
       /\ turn.pc \in {"rebuild", "retry", "store", "raise"}
       /\ turn.pc \in {"store", "raise"} => turn.rebuilt /\ turn.calls = 2
  /\ turn.rebuilt => turn.calls <= 2
  /\ turn.raisedAt = "retry" => turn.pc = "raise" /\ turn.calls = 2

\* C10: the history used for the retry holds no image part, every message
\* that references an `uploaded` document being materialized from extracted
\* text (or left as plain text); a first-call failure of another kind is
\* propagated without rebuild.
C10_RetryHistoryTextOnly ==
  /\ turn.pc = "retry" =>
       \A i \in DOMAIN turn.history :
         turn.history[i].kind \in {"pdftext", "text"}
  /\ turn.rebuilt => turn.first.mime

\* documents referenced by the messages of conversation c
ConvDocs(c) == {msgs[c][i].file : i \in DOMAIN msgs[c]} \ {0}

\* C11: when a turn performs a retrieval, the filter passed to the index names
\* exactly the conversation's documents whose status (as the turn read it) is
\* `completed`; no `uploaded` or `failed` document is named, also when the
\* conversation mixes completed and other documents.
C11_FilterOnlyCompleted ==
  turn.pc = "exec" =>
    FilterIds(turn.fileIds) = {d \in ConvDocs(turn.conv) : turn.cache[d] = COMPLETED}

\* C12: within one turn no document is both inlined into the prompt (page
\* images or extracted text) and named in the retrieval filter of that turn.
C12_NoInlineAndFilter ==
  turn.pc = "exec" =>
    \A i \in DOMAIN turn.history :
      turn.history[i].kind \in {"images", "pdftext"} =>
        turn.history[i].file \notin FilterIds(turn.fileIds)

\* C13: a chat request naming a document id with no row fails with a client
\* error (HTTP 400) before any completion, embedding or index call, and adds
\* no message and no conversation.
C13_MissingFileRejected ==
  [][(/\ turn.pc = "open" /\ turn'.pc # "open"
      /\ turn'.file # 0 /\ files[turn'.file] = ABSENT)
     => /\ turn'.pc = "raise" /\ turn'.http = 400
        /\ turn'.calls = 0 /\ turn'.retrievals = 0
        /\ msgs' = msgs /\ convs' = convs
        /\ files' = files /\ index' = index]_vars

\* C13 witness: a request naming a missing document has been refused
C13_Witness ==
  /\ turn.pc = "raise" /\ turn.raisedAt = "validate" /\ turn.http = 400
  /\ turn.file # 0 /\ files[turn.file] = ABSENT
  /\ convs = 0

\* C14: the messages of a turn are persisted atomically with the turn: once a
\* turn has failed, the conversation's history holds no user message of that
\* turn (its last message, if any, is an assistant message).
C14_TurnAtomic ==
  (turn.pc = "raise" /\ turn.conv # 0) =>
    LET ms == msgs[turn.conv] IN ms = <<>> \/ ms[Len(ms)].role = ASSISTANT

\* C15 (as stated): user messages have null retrieval_mode and null
\* retrieved_chunks, and a message with either of them non-null is an
\* assistant message of a turn that used RAG.
C15_OnlyRagCarriesMode ==
  \A c \in ConvIds : \A i \in DOMAIN msgs[c] :
    LET m == msgs[c][i] IN
    /\ m.role = USER => m.mode = None /\ m.chunks = None
    /\ (m.mode # None \/ m.chunks # None) => m.role = ASSISTANT /\ m.mode = RAG

\* C15 (amended): user messages have null retrieval_mode and null
\* retrieved_chunks; every assistant message carries the mode its turn
\* resolved to, `inline` or `rag`, and retrieved_chunks is non-null only on
\* assistant messages of mode `rag`.
C15_ModeOnAssistantOnly ==
  \A c \in ConvIds : \A i \in DOMAIN msgs[c] :
    LET m == msgs[c][i] IN
    /\ m.role = USER => m.mode = None /\ m.chunks = None
    /\ m.role = ASSISTANT => m.mode \in {INLINE, RAG}
    /\ m.chunks # None => m.role = ASSISTANT /\ m.mode = RAG

\* C15 witness: a stored turn whose assistant message carries mode `inline`
C15_Witness ==
  \E c \in ConvIds :
    /\ Len(msgs[c]) >= 2
    /\ msgs[c][1].role = USER /\ msgs[c][1].mode = None
    /\ msgs[c][2].role = ASSISTANT /\ msgs[c][2].mode = INLINE

\* whether sequence a is a prefix of sequence b
IsPrefix(a, b) == Len(a) <= Len(b) /\ \A i \in DOMAIN a : a[i] = b[i]

\* C16: every step leaves each conversation's history a prefix of the new
\* one; a turn adds its user message when it starts and its assistant message
\* when it succeeds, each at the end of the history, and nothing else adds one.
C16_AppendOnly ==
  [][\A c \in ConvIds :
       /\ IsPrefix(msgs[c], msgs'[c])
       /\ msgs'[c] # msgs[c] =>
            /\ Len(msgs'[c]) = Len(msgs[c]) + 1
            /\ c = turn'.conv
            /\ LET m == msgs'[c][Len(msgs'[c])] IN
               \/ turn.pc = "open" /\ turn'.pc = "collect" /\ m.role = USER
               \/ /\ turn.pc = "store" /\ turn'.pc = "return" /\ m.role = ASSISTANT
                  /\ msgs[c][Len(msgs[c])].role = USER
       /\ (turn'.pc = "return" /\ turn.pc # "return" /\ turn'.conv = c) =>
            Len(msgs'[c]) = Len(msgs[c]) + 1]_vars

\* C16 witness: the second successful turn of a conversation has been stored
C16_Witness ==
  /\ turn.pc = "return"
  /\ Len(msgs[turn.conv]) = 4
  /\ \A i \in 1..4 : msgs[turn.conv][i].role = IF i % 2 = 1 THEN USER ELSE ASSISTANT

\* keys of the form uploads/{uuid}.pdf
AcceptedKeys == {UploadKey(d) : d \in Docs}

\* C17: every upload event with an accepted key, repeated and concurrent
\* events for one key included, is answered (HTTP 200) with the state of the
\* one document of that key, whose id is the UUID in the key.
C17_EveryEventAnswered ==
  \A r \in RunIds :
    (runs[r].pc = "respond" /\ runs[r].key \in AcceptedKeys) =>
      /\ runs[r].http = 200
      /\ runs[r].doc = runs[r].key.id
      /\ runs[r].answer \in IngestionStatus
      /\ files[runs[r].doc] # ABSENT

C19_PresignWritesNothing ==
  [][/\ issued' # issued =>
          /\ files' = files
          /\ \A d \in issued' \ issued : files[d] = ABSENT /\ d \notin issued
     /\ \A d \in Docs :
          (files[d] = ABSENT /\ files'[d] # ABSENT) =>
            \E r \in RunIds : /\ runs[r].pc = "hook" /\ runs[r].doc = d
                              /\ runs'[r].pc = "respond" /\ runs'[r].http = 200
     /\ (turn.pc = "open" /\ turn'.pc # "open" /\ turn'.file \in issued) =>
          IF files[turn'.file] = ABSENT
          THEN turn'.pc = "raise" /\ turn'.raisedAt = "validate" /\ turn'.http = 400
          ELSE turn'.pc = "collect" /\ turn'.cache[turn'.file] = files[turn'.file]]_vars

\* C19 witness: a chat request naming a handed-out id was refused before any
\* upload event for it
C19_Witness ==
  /\ turn.pc = "raise" /\ turn.raisedAt = "validate"
  /\ turn.file \in issued
  /\ files[turn.file] = ABSENT
  /\ \A r \in RunIds : runs[r].pc = "idle"

\* C20: a background task exists only for a committed row; the response of
\* the upload event is sent before the task's first step, so it is the same
\* whatever the task does; an exception of the task ends in the task.
C20_ResponseBeforeIngestion ==
  \A r \in RunIds :
    LET run == runs[r] IN
    /\ run.pc # "crashed"
    /\ run.pc \notin {"idle", "hook", "respond", "ended"} => files[run.doc] # ABSENT
    /\ run.pc = "respond" =>
         /\ run.trace = <<>> /\ run.loaded = NONE /\ run.failedAt = NONE
         /\ run.http = 200 => run.answer \in IngestionStatus
    /\ run.pc \notin {"hook", "respond"} => run.http = 0 /\ run.answer = NONE

\* C20 witness: a task is about to raise, long after its event was answered
C20_Witness ==
  \E r \in RunIds :
    /\ runs[r].pc = "raising"
    /\ runs[r].http = 0 /\ runs[r].answer = NONE
    /\ files[runs[r].doc] \in IngestionStatus

\* C21: the candidates attempted so far are the first ones of the priority
\* list (primary model, then the fallbacks as declared), each once, and the
\* candidate that answered is the last one attempted; with or without a
\* start-up listing of available models.
C21_PriorityOrder ==
  llm.pc # "off" =>
    /\ IsPrefix(llm.tried, models_to_try)
    /\ llm.pc = "returned" => llm.by = llm.tried[Len(llm.tried)]

\* C22: the call is abandoned at a candidate exactly when that candidate's
\* failure is an authentication error; after a failure of any other class the
\* loop goes on.
C22_AuthAbortsOnly ==
  llm.pc # "off" =>
    \A j \in DOMAIN llm.details :
      LET abandoned == j = Len(llm.details) /\ llm.pc = "raised" /\ llm.report.kind = "auth"
      IN  abandoned <=> llm.details[j].text.class = "auth"

\* C23: when every candidate has failed with a non-authentication error, each
\* candidate was attempted once and the error raised names every attempted
\* model with that model's error summary.
C23_FailureNamesAll ==
  (/\ llm.pc = "raised"
   /\ Len(llm.details) = Len(llm.order)
   /\ \A j \in DOMAIN llm.details :
        llm.details[j].text.class # "auth" /\ OnError(llm.details[j].text) = "continue")
  => LET attempted == {llm.tried[j] : j \in DOMAIN llm.tried} IN
     /\ Len(llm.tried) = Len(models_to_try)
     /\ attempted = {models_to_try[j] : j \in DOMAIN models_to_try}
     /\ attempted \subseteq llm.report.names
     /\ attempted \subseteq llm.report.summaries

\* C24: an upsert call whose three sequences differ in length raises before
\* any batch is posted, and the index is as it was.
C24_LengthMismatchRejected ==
  (ups.pc # "off" /\ ~(ups.nv = ups.ni /\ ups.ni = ups.nm)) =>
    /\ ups.pc \in {"check", "raised"}
    /\ ups.posted = <<>>
    /\ index = {}

\* C24 witness: a call with sequences of different lengths has raised
C24_Witness ==
  /\ ups.pc = "raised" /\ ups.error = "length"
  /\ ups.nv = BATCH_SIZE + 1 /\ ups.ni = BATCH_SIZE /\ ups.nm = BATCH_SIZE + 1
  /\ index = {}

\* the entries of the k-th batch of n entries
KthBatch(k, n) ==
  {VectorId(1, i) : i \in ((k - 1) * BATCH_SIZE)..(Min(k * BATCH_SIZE, n) - 1)}

\* C25: the entries are posted in order in consecutive batches of BATCH_SIZE;
\* when a batch is refused the call raises, the batches before it stay in the
\* index and none follows; when none is refused every entry was posted once
\* and the count returned is the number of entries.
C25_BatchesInOrder ==
  ups.pc \in {"loop", "returned", "raised"} =>
    LET p == Len(ups.posted)
        accepted == IF ups.error = "transport" THEN p - 1 ELSE p
    IN  /\ \A k \in 1..p : ups.posted[k] = KthBatch(k, ups.n)
        /\ \A k \in 1..p : ups.posted[k] # {}
        /\ index = UNION {KthBatch(k, ups.n) : k \in 1..accepted}
        /\ ups.total = Cardinality(index)
        /\ ups.pc = "returned" =>
             /\ ups.total = ups.n
             /\ index = {VectorId(1, i) : i \in 0..(ups.n - 1)}
             /\ ups.error = NONE

\* C25 witness: the second batch was refused after the first was stored
C25_Witness ==
  /\ ups.pc = "raised" /\ ups.error = "transport"
  /\ Len(ups.posted) = 2
  /\ index = KthBatch(1, ups.n)
  /\ ups.n = BATCH_SIZE + 1

\* C26: a run on a document that was completed and then reset to `uploaded`,
\* and that is unchanged (the run obtains as many chunks as the run that
\* completed it), writes only index keys that run wrote: no batch of it
\* changes the index, and when it ends the document is `completed` again with
\* an entry for each of its chunks.
C26_RerunSameKeys ==
  [][\A r \in RunIds :
       LET run == runs[r]
           d == run.doc
       IN  (/\ run.pc \in {"upsert", "mark"} /\ runs'[r] # run
            /\ run.loaded = UPLOADED
            /\ d \in everDone
            /\ completedN[d] = run.n)
           => /\ index' = index
              /\ runs'[r].pc = "returning" =>
                   /\ files'[d] = COMPLETED
                   /\ \A i \in 0..(run.n - 1) : VectorId(d, i) \in index']_vars

\* C26 witness: the re-run of a document completed earlier and reset since
\* has posted every batch and is about to write `completed`
C26_Witness ==
  \E r \in RunIds :
    /\ runs[r].pc = "mark"
    /\ runs[r].loaded = UPLOADED
    /\ runs[r].doc \in everDone \ cleanDone
    /\ files[runs[r].doc] = UPLOADED
    /\ completedN[runs[r].doc] = runs[r].n
    /\ index = {VectorId(runs[r].doc, i) : i \in 0..(runs[r].n - 1)}

\* ---------------------------------------------------------------- chunk_text
AllBlank(text) == \A i \in 1..Len(text) : text[i] \in Whitespace

\* c is t without its leading and trailing whitespace
IsTrimOf(c, t) ==
  /\ c # <<>>
  /\ c[1] \notin Whitespace
  /\ c[Len(c)] \notin Whitespace
  /\ \E a \in 0..Len(t) :
       /\ a + Len(c) <= Len(t)
       /\ SubSeq(t, a + 1, a + Len(c)) = c
       /\ \A i \in (1..a) \cup ((a + Len(c) + 1)..Len(t)) : t[i] \in Whitespace

\* C27: chunk_text returns the empty sequence for an empty or whitespace-only
\* text; for any other text of at most chunk_size * 4 characters it returns
\* exactly one element, the text without its leading and trailing whitespace.
C27_ShortText ==
  chk.pc = "returned" =>
    /\ AllBlank(chk.text) => chk.chunks = <<>>
    /\ (~AllBlank(chk.text) /\ Len(chk.text) <= chk.chunk_size * 4) =>
         (Len(chk.chunks) = 1 /\ IsTrimOf(chk.chunks[1], chk.text))

C27_Witness ==
  /\ chk.pc = "returned"
  /\ ~AllBlank(chk.text)
  /\ Len(chk.text) = chk.chunk_size * 4
  /\ chk.text[1] \in Whitespace
  /\ Len(chk.chunks) = 1
  /\ Len(chk.chunks[1]) < Len(chk.text)

\* the characters of window w
WindowText(text, w) == Slice(text, w[1], w[2])

\* C28: for a text longer than the character budget the windows cover the
\* text without gaps: the first starts at 0 and the last reaches the end,
\* every window starts at or before the end of the previous one and shares
\* at most overlap * 4 characters with it, every non-whitespace character is
\* in a window, and the trimmed text of every window that is not blank is a
\* returned chunk.
C28_WindowsCover ==
  (chk.pc = "returned" /\ Len(chk.text) > chk.chunk_size * 4 /\ ~AllBlank(chk.text)) =>
    LET w == chk.windows
        k == Len(w)
    IN  /\ k >= 1
        /\ w[1][1] = 0
        /\ w[k][2] >= Len(chk.text)
        /\ \A j \in 1..(k - 1) :
             /\ w[j + 1][1] <= w[j][2]
             /\ w[j][2] - w[j + 1][1] <= chk.overlap * 4
        /\ \A p \in 1..Len(chk.text) :
             chk.text[p] \notin Whitespace => \E j \in 1..k : w[j][1] < p /\ p <= w[j][2]
        /\ \A j \in 1..k :
             \/ AllBlank(WindowText(chk.text, w[j]))
             \/ \E c \in 1..Len(chk.chunks) :
                  IsTrimOf(chk.chunks[c], WindowText(chk.text, w[j]))

\* a window cut short at a word boundary, two windows sharing the whole overlap
C28_Witness ==
  /\ chk.pc = "returned"
  /\ Len(chk.windows) >= 2
  /\ chk.overlap > 0
  /\ \E j \in 1..(Len(chk.windows) - 1) :
       chk.windows[j][2] - chk.windows[j][1] < chk.chunk_size * 4
  /\ \E j \in 1..(Len(chk.windows) - 1) :
       chk.windows[j][2] - chk.windows[j + 1][1] = chk.overlap * 4

\* C29: chunk_text terminates for every text, chunk_size and overlap, an
\* overlap at or above chunk_size included: an iteration that does not end
\* the loop moves start strictly forward, an iteration whose window reaches
\* the end of the text ends the loop, and every call returns.
C29_Terminates ==
  /\ [][(chk.pc = "loop" /\ chk' # chk) =>
          LET w == chk'.windows[Len(chk'.windows)]
          IN  /\ chk'.pc = "loop" => chk'.start > chk.start
              /\ w[1] = chk.start
              /\ w[2] >= Len(chk.text) => chk'.pc = "returned"]_vars
  /\ (chk.pc = "guards" ~> chk.pc = "returned")

\* a returned call whose overlap is at least chunk_size and whose windows
\* advanced by the one forced character
C29_Witness ==
  /\ chk.pc = "returned"
  /\ chk.overlap >= chk.chunk_size
  /\ Len(chk.windows) >= 3
  /\ \A j \in 1..(Len(chk.windows) - 1) : chk.windows[j + 1][1] = chk.windows[j][1] + 1

\* -------------------------------------------------------------- GET /chats
\* the conversations of all pages received so far, in order
RECURSIVE Listed(_)
Listed(pages) ==
  IF pages = <<>> THEN <<>> ELSE Listed(SubSeq(pages, 1, Len(pages) - 1)) \o pages[Len(pages)].chats

\* C30: every page of a listing with limit L and offset O over N stored
\* conversations holds min(L, max(0, N - O)) conversations, newest first,
\* and reports total = N; the pages at offsets 0, L, 2L, ... together hold
\* every conversation exactly once.
C30_Pagination ==
  LET n == Len(lst.created_at)
  IN  lst.pc \in {"answered", "done"} =>
        /\ \A k \in 1..Len(lst.pages) :
             LET page == lst.pages[k]
             IN  /\ Len(page.chats) = Min(page.limit, Max(0, n - page.offset))
                 /\ page.total = n
                 /\ \A i \in 1..(Len(page.chats) - 1) :
                      lst.created_at[page.chats[i]] >= lst.created_at[page.chats[i + 1]]
        /\ (lst.pc = "done" /\ lst.first = 0) =>
             /\ Len(Listed(lst.pages)) = n
             /\ \A c \in 1..n : \E i \in 1..n : Listed(lst.pages)[i] = c

\* ------------------------------------------------------- chat turn, continued
\* C31: a chat turn that fails because the completion backend is unavailable
\* (every candidate exhausted or the credentials rejected) is answered with a
\* server error, a turn that fails on an unresolvable document reference with
\* a client error; a backend failure is never answered with a client error.
C31_BackendFailureIsServerError ==
  turn.pc = "raise" =>
    /\ turn.raisedAt = "validate" => turn.http = 400
    /\ turn.raisedAt \in {"inline", "retry", "fallback"} => turn.http >= 500

C33_EventuallyLeavesUploaded ==
  /\ \A d \in Docs : (files[d] = UPLOADED) ~> (files[d] \in {COMPLETED, FAILED})
  /\ [](\A r \in RunIds :
         runs[r].pc \in {"returning", "raising"} => files[runs[r].doc] # UPLOADED)

\* ------------------------------------------------------- chat turn, continued
\* C34: when the ingestion of document D completes while a turn of a
\* conversation that references D is in progress, the turn answers either in
\* mode `rag`, or in mode `inline` having read D as `uploaded` (D's messages
\* are then the ones given inline content); it does not answer in mode
\* `inline` with D read as `completed` and replayed as plain text.
C34_AccessDespiteRace ==
  turn.pc = "store" =>
    \A d \in ConvDocs(turn.conv) :
      d \in cleanDone \ turn.before =>
        \/ turn.mode = RAG
        \/ turn.mode = INLINE /\ turn.cache[d] = UPLOADED

\* C35: when the first completion of a RAG turn requests tool invocations,
\* the message list for the second completion is the stored history, then the
\* assistant tool-call message, then one tool-result message per invocation;
\* the second completion call is made (without tools), so a turn that leaves
\* it for the fallback has sent two completion requests by then.
C35_SecondCallWithResults ==
  /\ turn.pc = "second" =>
       LET n == Len(msgs[turn.conv]) IN
       /\ turn.toolCalls >= 1
       /\ turn.retrievals = turn.toolCalls
       /\ Len(turn.history) = n + 1 + turn.toolCalls
       /\ \A i \in 1..n : turn.history[i].role = msgs[turn.conv][i].role
       /\ turn.history[n + 1].kind = "tool_calls"
       /\ \A k \in 1..turn.toolCalls : turn.history[n + 1 + k].kind = "tool_result"
  /\ turn.raisedAt = "second" => turn.calls >= 2

\* ------------------------------------------------------ build_message_history
\* C36: build_message_history emits one prompt message per stored message, in
\* stored order and with the stored role; only a message that references an
\* `uploaded` document receives document content: the images of at most the
\* first MaxPages pages when the rendering succeeds, the extracted text cut
\* to TextBudget characters only when the rendering failed; when both fail
\* the call still returns and the message is replayed as text.
C36_HistoryBuilt ==
  hst.pc = "returned" =>
    /\ Len(hst.out) = Len(hst.ms)
    /\ \A i \in DOMAIN hst.ms :
         LET o == hst.out[i]
             render == hst.log[i].render
             extract == hst.log[i].extract
             failed == render.res \in {"download_error", "import_error", "convert_error"}
         IN  /\ o.role = hst.ms[i].role
             /\ o.kind \in {"images", "pdftext"} =>
                  hst.ms[i].file # 0 /\ hst.status = UPLOADED
             /\ (render.res = "pages" /\ render.n > 0) =>
                  o.kind = "images" /\ o.images = Min(render.n, MaxPages)
             /\ o.kind = "images" =>
                  render.res = "pages" /\ o.images >= 1 /\ o.images <= MaxPages
             /\ o.kind = "pdftext" =>
                  /\ failed
                  /\ extract.res = "chars"
                  /\ o.chars = Min(extract.n, TextBudget)
             /\ (failed /\ extract.res = "error") =>
                  o.kind \in {"text", "note"} /\ o.images = 0 /\ o.chars = 0

\* a history with the images of a document longer than the page cap, and
\* with an extracted text longer than the budget after a failed rendering
C36_Witness ==
  /\ hst.pc = "returned"
  /\ \E i \in DOMAIN hst.out :
       hst.out[i].kind = "images" /\ hst.log[i].render.n > MaxPages
  /\ \E i \in DOMAIN hst.out :
       hst.out[i].kind = "pdftext" /\ hst.log[i].extract.n > TextBudget

\* --------------------------------------------------- chunk_text, the cut point
\* C37: every window of chunk_text that ends before the end of the text is cut
\* immediately after the last boundary character within the final 20% of the
\* window, or at its nominal end when that region holds none; no window is
\* cut beyond its nominal end and no returned chunk is longer than
\* chunk_size * 4 characters.
C37_CutPoint ==
  chk.pc \in {"loop", "returned"} =>
    LET budget == chk.chunk_size * 4
    IN  /\ \A j \in DOMAIN chk.windows :
             LET start == chk.windows[j][1]
                 cut == chk.windows[j][2]
                 nominal == start + budget
                 region == {p \in Max(start, nominal - budget \div 5)..(nominal - 1) :
                              chk.text[p + 1] \in Boundary}
             IN  nominal < Len(chk.text) =>
                   /\ cut <= nominal
                   /\ cut = IF region = {} THEN nominal
                            ELSE (CHOOSE p \in region : \A q \in region : q <= p) + 1
        /\ \A c \in DOMAIN chk.chunks : Len(chk.chunks[c]) <= budget

\* ------------------------------------------------- turns over a failed document
\* a document whose ingestion failed and whose status was not reset since:
\* it is `failed`, or it is `completed` without ever having moved there
\* from `uploaded` (a reset writes `uploaded`)
FailedNotReset(status, d, ever) ==
  status = FAILED \/ (status = COMPLETED /\ d \notin ever)

\* C38: a turn of a conversation whose only document has failed, and has not
\* been reset since, takes the inline branch, replays every message as plain
\* text and retrieves no snippet: neither its prompt nor its stored answer
\* carries content of the document.
C38_FailedStaysWithoutAccess ==
  turn.pc \in (TurnLocalPcs \cup {"exec"}) \ {"build", "return", "raise"} =>
    \A d \in Docs :
      (ConvDocs(turn.conv) = {d} /\ FailedNotReset(turn.cache[d], d, turn.ever)) =>
        /\ turn.pc \in {"inline", "rebuild", "retry", "store"}
        /\ turn.mode = INLINE
        /\ \A i \in DOMAIN turn.history : turn.history[i].kind = "text"
        /\ turn.retrievals = 0
        /\ turn.chunks = None

\* --------------------------------------------- turns under an unknown conversation
\* the request in progress supplied a conversation id that is not in the table
SuppliedUnknown == turn.asked # 0 /\ turn.asked \notin 1..convs

\* C39: a turn that supplies a conversation id matching no stored conversation
\* is not refused for it: a new conversation with a generated id is created,
\* the turn's messages are stored under it and the id returned differs from
\* the supplied one; no conversation is ever created under a supplied id, and
\* the turn leaves the messages of every conversation that existed unchanged.
C39_UnknownConversationIsNew ==
  /\ [][(turn.pc = "open" /\ SuppliedUnknown /\ turn'.pc # "open") =>
          IF ValidateFile(files, turn.file)
          THEN /\ turn'.pc = "collect"
               /\ convs' = convs + 1
               /\ turn'.conv = convs'
               /\ turn'.conv # turn.asked
               /\ msgs'[turn'.conv] = <<UserMessage(turn.file)>>
               /\ \A c \in 1..convs : msgs'[c] = msgs[c]
          ELSE turn'.http = 400 /\ turn'.raisedAt = "validate"]_vars
  /\ [][convs' # convs => (convs' = convs + 1 /\ convs' # turn.asked)]_vars
  /\ [][(turn.pc = "store" /\ SuppliedUnknown) =>
          /\ turn'.pc = "return" /\ turn'.http = 200
          /\ turn'.conv = turn.conv /\ turn'.conv # turn.asked
          /\ msgs'[turn.conv] = Append(msgs[turn.conv], AssistantMessage(turn.mode, turn.chunks))
          /\ \A c \in ConvIds \ {turn.conv} : msgs'[c] = msgs[c]]_vars

\* a turn that supplied an unknown id is answered under a new conversation
\* that holds its two messages, next to an older conversation
C39_Witness ==
  /\ turn.pc = "return"
  /\ turn.http = 200
  /\ turn.asked = UnknownConversation
  /\ turn.conv = convs
  /\ convs >= 2
  /\ Len(msgs[turn.conv]) = 2
  /\ msgs[1] # <<>>

====
